---------------------------- MODULE Spec2Model ----------------------------
(***************************************************************************)
(* A model of split.py: the AlbumSplitter pipeline and the Split tree walk *)
(* over a filesystem of named folders and files.                           *)
(*                                                                         *)
(* A name is a sequence of one-character strings, a path is the sequence   *)
(* of the names below the walk's root (the root itself is << >>), and a    *)
(* path's string is its names joined by "/".  glob, fnmatch, sort,         *)
(* str.replace, os.rename, os.remove and shutil.rmtree are modelled by     *)
(* what they do on a POSIX system; the four external tools by the contract *)
(* their command lines in the source rely on.                              *)
(***************************************************************************)
EXTENDS Naturals, Sequences, FiniteSets

(***************************************************************************)
(* Characters and their order (code points): list.sort() compares path     *)
(* strings code point by code point.                                       *)
(***************************************************************************)
Ord ==
  [c \in {" ", "-", ".", "/", "0", "1", "2", "3", "4", "5", "6", "7", "8",
          "9", ":", "?", "[", "]", "A", "C", "S", "a", "b", "c", "d", "e",
          "f", "g", "h", "i", "j", "k", "l", "m", "n", "o", "p", "q", "r",
          "s", "t", "u", "v", "w", "x", "y", "z"} |->
     CASE c = " " -> 32 [] c = "-" -> 45 [] c = "." -> 46 [] c = "/" -> 47
       [] c = "0" -> 48 [] c = "1" -> 49 [] c = "2" -> 50 [] c = "3" -> 51
       [] c = "4" -> 52 [] c = "5" -> 53 [] c = "6" -> 54 [] c = "7" -> 55
       [] c = "8" -> 56 [] c = "9" -> 57 [] c = ":" -> 58 [] c = "?" -> 63
       [] c = "[" -> 91 [] c = "]" -> 93 [] c = "A" -> 65 [] c = "C" -> 67
       [] c = "S" -> 83 [] c = "a" -> 97 [] c = "b" -> 98 [] c = "c" -> 99
       [] c = "d" -> 100 [] c = "e" -> 101 [] c = "f" -> 102 [] c = "g" ->
       103 [] c = "h" -> 104 [] c = "i" -> 105 [] c = "j" -> 106 [] c = "k"
       -> 107 [] c = "l" -> 108 [] c = "m" -> 109 [] c = "n" -> 110 [] c =
       "o" -> 111 [] c = "p" -> 112 [] c = "q" -> 113 [] c = "r" -> 114 [] c
       = "s" -> 115 [] c = "t" -> 116 [] c = "u" -> 117 [] c = "v" -> 118 []
       c = "w" -> 119 [] c = "x" -> 120 [] c = "y" -> 121 [] c = "z" -> 122]

\* Python's str < str: lexicographic by code point, a proper prefix first.
RECURSIVE StrLess(_, _)
StrLess(s, t) ==
  IF t = << >> THEN FALSE
  ELSE IF s = << >> THEN TRUE
  ELSE IF Head(s) = Head(t) THEN StrLess(Tail(s), Tail(t))
  ELSE Ord[Head(s)] < Ord[Head(t)]

\* The string of a path: f'{folder}/{name}', the root's own prefix left out.
RECURSIVE PathStr(_)
PathStr(p) ==
  IF p = << >> THEN << >> ELSE <<"/">> \o Head(p) \o PathStr(Tail(p))

\* The path a string names: its components between "/", empty ones dropped
\* (POSIX reads "a//b" as "a/b").
RECURSIVE SplitStr(_, _)
SplitStr(s, cur) ==
  IF s = << >> THEN (IF cur = << >> THEN << >> ELSE <<cur>>)
  ELSE IF Head(s) = "/"
       THEN (IF cur = << >> THEN << >> ELSE <<cur>>) \o SplitStr(Tail(s), << >>)
       ELSE SplitStr(Tail(s), Append(cur, Head(s)))

StrPath(s) == SplitStr(s, << >>)

Parent(p) == SubSeq(p, 1, Len(p) - 1)
Base(p) == p[Len(p)]
IsPrefix(a, p) == Len(a) <= Len(p) /\ SubSeq(p, 1, Len(a)) = a
\* p lies inside folder a (at any depth).
Inside(a, p) == Len(a) < Len(p) /\ IsPrefix(a, p)

\* list.sort() of path strings.
RECURSIVE SortPaths(_)
SortPaths(S) ==
  IF S = {} THEN << >>
  ELSE LET m == CHOOSE x \in S :
                  \A y \in S \ {x} : StrLess(PathStr(x), PathStr(y))
       IN <<m>> \o SortPaths(S \ {m})

(***************************************************************************)
(* fnmatch and glob.glob(f'{album}/{wildcard}').  The whole path string is *)
(* the pattern: "*", "?" and "[" are magic in the album's own names too.   *)
(***************************************************************************)
HasMagic(s) == \E i \in 1..Len(s) : s[i] \in {"*", "?", "["}
PathHasMagic(p) == \E i \in 1..Len(p) : HasMagic(p[i])

\* The index of the "]" closing the class opened at p[1] = "[", 0 if none.
ClassEnd(p) ==
  LET n  == Len(p)
      k1 == IF 2 <= n /\ p[2] = "!" THEN 3 ELSE 2
      k2 == IF k1 <= n /\ p[k1] = "]" THEN k1 + 1 ELSE k1
      J  == {j \in k2..n : p[j] = "]"}
  IN IF J = {} THEN 0 ELSE CHOOSE j \in J : \A i \in J : j <= i

RECURSIVE InClass(_, _)
InClass(ch, m) ==
  IF m = << >> THEN FALSE
  ELSE IF Len(m) >= 3 /\ m[2] = "-"
       THEN (Ord[m[1]] <= Ord[ch] /\ Ord[ch] <= Ord[m[3]])
            \/ InClass(ch, SubSeq(m, 4, Len(m)))
       ELSE ch = m[1] \/ InClass(ch, Tail(m))

\* fnmatch.fnmatchcase(s, p)
RECURSIVE Match(_, _)
Match(p, s) ==
  IF p = << >> THEN s = << >>
  ELSE IF Head(p) = "*"
       THEN Match(Tail(p), s) \/ (s # << >> /\ Match(p, Tail(s)))
  ELSE IF Head(p) = "?"
       THEN s # << >> /\ Match(Tail(p), Tail(s))
  ELSE IF Head(p) = "[" /\ ClassEnd(p) # 0
       THEN LET j    == ClassEnd(p)
                body == SubSeq(p, 2, j - 1)
                neg  == body[1] = "!"
                mem  == IF neg THEN Tail(body) ELSE body
            IN s # << >>
               /\ (InClass(Head(s), mem) # neg)
               /\ Match(SubSeq(p, j + 1, Len(p)), Tail(s))
  ELSE s # << >> /\ Head(s) = Head(p) /\ Match(Tail(p), Tail(s))

\* A filesystem is [files: path -> content, dirs: set of paths]; the root
\* << >> is always a folder.
IsFile(fs, p) == p \in DOMAIN fs.files
IsDir(fs, p) == p = << >> \/ p \in fs.dirs
Exists(fs, p) == IsFile(fs, p) \/ IsDir(fs, p)
Entries(fs) == DOMAIN fs.files \cup fs.dirs

\* glob's expansion of the folder part of the pattern: the existing paths it
\* names.  A name without magic stands for itself; a name with magic stands
\* for every entry of the parent that fnmatch accepts, dot-names left out.
RECURSIVE GlobDirs(_, _)
GlobDirs(fs, a) ==
  IF ~PathHasMagic(a) THEN (IF Exists(fs, a) THEN {a} ELSE {})
  ELSE LET parents == GlobDirs(fs, Parent(a))
           b == Base(a)
       IN IF HasMagic(b)
          THEN {q \in Entries(fs) :
                  /\ Parent(q) \in parents
                  /\ (Head(Base(q)) = "." => Head(b) = ".")
                  /\ Match(b, Base(q))}
          ELSE {q \in Entries(fs) : Parent(q) \in parents /\ Base(q) = b}

\* AlbumSplitter._all: glob.glob(f'{self.album}/{wildcard}') then items.sort()
All(fs, album, wildcard) ==
  SortPaths({q \in Entries(fs) :
               /\ Parent(q) \in GlobDirs(fs, album)
               /\ (Head(Base(q)) = "." => Head(wildcard) = ".")
               /\ Match(wildcard, Base(q))})

\* The missing-value state (Python's None); no glob result is the empty path.
None == << >>

\* AlbumSplitter._first
First(fs, album, wildcard) ==
  LET items == All(fs, album, wildcard)
  IN IF items # << >> THEN items[1] ELSE None

(***************************************************************************)
(* File contents.  A content is [kind, data, tagged]: for a cue sheet data *)
(* is the file's bytes; for every other file it is <<id>>, the identity of *)
(* the audio or text it holds.                                             *)
(***************************************************************************)
Content(k, d) == [kind |-> k, data |-> d, tagged |-> FALSE]

\* pathlib's read_text()/write_text() use the locale's encoding.
Encodings == {"utf-8", "latin-1"}

IsCont(b) == 128 <= b /\ b <= 191

\* bytes.decode('utf-8'), strict: [ok, s], s the code points.
RECURSIVE DecodeUtf8(_)
DecodeUtf8(b) ==
  IF b = << >> THEN [ok |-> TRUE, s |-> << >>]
  ELSE
    LET b1 == b[1]
        n  == IF b1 < 128 THEN 1
              ELSE IF 194 <= b1 /\ b1 <= 223 THEN 2
              ELSE IF 224 <= b1 /\ b1 <= 239 THEN 3
              ELSE IF 240 <= b1 /\ b1 <= 244 THEN 4
              ELSE 0
        wellFormed ==
          /\ n # 0
          /\ Len(b) >= n
          /\ \A i \in 2..n : IsCont(b[i])
          /\ (b1 = 224 => b[2] >= 160)
          /\ (b1 = 237 => b[2] <= 159)
          /\ (b1 = 240 => b[2] >= 144)
          /\ (b1 = 244 => b[2] <= 143)
        cp == CASE n = 1 -> b1
                [] n = 2 -> (b1 % 32) * 64 + (b[2] % 64)
                [] n = 3 -> (b1 % 16) * 4096 + (b[2] % 64) * 64 + (b[3] % 64)
                [] n = 4 -> (b1 % 8) * 262144 + (b[2] % 64) * 4096
                            + (b[3] % 64) * 64 + (b[4] % 64)
    IN IF ~wellFormed THEN [ok |-> FALSE, s |-> << >>]
       ELSE LET rest == DecodeUtf8(SubSeq(b, n + 1, Len(b)))
            IN [ok |-> rest.ok, s |-> <<cp>> \o rest.s]

\* str.encode('utf-8') of code points below the surrogates or above them.
RECURSIVE EncodeUtf8(_)
EncodeUtf8(s) ==
  IF s = << >> THEN [ok |-> TRUE, b |-> << >>]
  ELSE
    LET c == s[1]
        rest == EncodeUtf8(Tail(s))
        one == IF c < 128 THEN <<c>>
               ELSE IF c < 2048 THEN <<192 + (c \div 64), 128 + (c % 64)>>
               ELSE IF c < 65536
                    THEN <<224 + (c \div 4096), 128 + ((c \div 64) % 64),
                           128 + (c % 64)>>
               ELSE <<240 + (c \div 262144), 128 + ((c \div 4096) % 64),
                      128 + ((c \div 64) % 64), 128 + (c % 64)>>
    IN [ok |-> rest.ok /\ ~(55296 <= c /\ c <= 57343), b |-> one \o rest.b]

\* latin-1: byte b is code point b; a code point above 255 cannot be encoded.
DecodeLatin1(b) == [ok |-> TRUE, s |-> [i \in 1..Len(b) |-> b[i]]]
EncodeLatin1(s) ==
  [ok |-> \A i \in 1..Len(s) : s[i] <= 255, b |-> [i \in 1..Len(s) |-> s[i]]]

Decode(b, enc) == IF enc = "utf-8" THEN DecodeUtf8(b) ELSE DecodeLatin1(b)
Encode(s, enc) == IF enc = "utf-8" THEN EncodeUtf8(s) ELSE EncodeLatin1(s)

\* Text mode reading (newline=None): "\r\n" and a lone "\r" become "\n".
\* Writing turns "\n" into os.linesep, which is "\n" here.
RECURSIVE UniversalNewlines(_)
UniversalNewlines(s) ==
  IF s = << >> THEN << >>
  ELSE IF s[1] = 13
       THEN <<10>> \o UniversalNewlines(
                        IF Len(s) >= 2 /\ s[2] = 10 THEN SubSeq(s, 3, Len(s))
                        ELSE Tail(s))
       ELSE <<s[1]>> \o UniversalNewlines(Tail(s))

\* str.replace(old, ''): every occurrence, left to right, none overlapping.
RECURSIVE Replace(_, _)
Replace(s, old) ==
  IF s = << >> THEN << >>
  ELSE IF Len(s) >= Len(old) /\ SubSeq(s, 1, Len(old)) = old
       THEN Replace(SubSeq(s, Len(old) + 1, Len(s)), old)
       ELSE <<s[1]>> \o Replace(Tail(s), old)

\* The literal '\xEF\xBB\xBF' of _prepare_cue: three code points.
BOM == <<239, 187, 191>>

\* text = path.read_text(); text = text.replace(BOM, ''); the text written
\* back: [ok, b].  ok is FALSE when a codec raises.
PrepareText(bytes, enc) ==
  LET d == Decode(bytes, enc)
  IN IF ~d.ok THEN [ok |-> FALSE, b |-> bytes]
     ELSE LET e == Encode(Replace(UniversalNewlines(d.s), BOM), enc)
          IN [ok |-> e.ok, b |-> IF e.ok THEN e.b ELSE << >>]

(***************************************************************************)
(* Filesystem calls.  Each yields [ok, fs]; ok is FALSE when the call      *)
(* raises (the filesystem is then as the call left it).                    *)
(***************************************************************************)
Without(f, S) == [q \in DOMAIN f \ S |-> f[q]]
With(f, p, c) == [q \in DOMAIN f \cup {p} |-> IF q = p THEN c ELSE f[q]]

\* os.remove(p): p is None, a folder or missing -> raises.
OsRemove(fs, p) ==
  IF p # None /\ IsFile(fs, p)
  THEN [ok |-> TRUE, fs |-> [fs EXCEPT !.files = Without(fs.files, {p})]]
  ELSE [ok |-> FALSE, fs |-> fs]

\* os.rename(src, dst) for a file src: dst's folder must exist, dst must not
\* be a folder, and an existing file dst is silently replaced.
OsRename(fs, src, dst) ==
  IF IsFile(fs, src) /\ dst # << >> /\ IsDir(fs, Parent(dst)) /\ ~IsDir(fs, dst)
  THEN [ok |-> TRUE,
        fs |-> [fs EXCEPT !.files = With(Without(fs.files, {src}), dst, fs.files[src])]]
  ELSE [ok |-> FALSE, fs |-> fs]

\* shutil.rmtree(p, ignore_errors=True): the folder and all below it; nothing
\* when p is no folder.
RmTree(fs, p) ==
  IF p \in fs.dirs
  THEN [files |-> Without(fs.files, {q \in DOMAIN fs.files : Inside(p, q)}),
        dirs |-> {d \in fs.dirs : ~IsPrefix(p, d)}]
  ELSE fs

(***************************************************************************)
(* Names the program spells out.                                           *)
(***************************************************************************)
DotFlac == <<".", "f", "l", "a", "c">>
StarCue == <<"*", ".", "c", "u", "e">>
StarFlac == <<"*">> \o DotFlac
StarWav == <<"*", ".", "w", "a", "v">>
StarWv == <<"*", ".", "w", "v">>
StarApe == <<"*", ".", "a", "p", "e">>
StarLog == <<"*", ".", "l", "o", "g">>
FileFlac == <<"f", "i", "l", "e">> \o DotFlac
PregapFlac ==
  <<"0", "0", " ", "-", " ", "p", "r", "e", "g", "a", "p">> \o DotFlac
files_to_remove == <<StarLog, StarApe, StarCue, StarWv, StarWav>>
folders_to_remove ==
  << <<"S", "c", "a", "n", "s">>, <<"C", "o", "v", "e", "r", "s">>,
     <<"s", "c", "a", "n", "s">>, <<"c", "o", "v", "e", "r", "s">>,
     <<"A", "r", "t", "w", "o", "r", "k">>,
     <<"a", "r", "t", "w", "o", "r", "k">> >>

(***************************************************************************)
(* The external tools, run with the album folder as working directory.     *)
(* Each yields [ok, fs]: ok is the tool's exit status (which _run_cmd      *)
(* drops), fs the filesystem it leaves.  A tool given a file that does not *)
(* exist exits non-zero and writes nothing.                                *)
(***************************************************************************)
\* sox -S <src> file.flac
Sox(fs, cwd, src) ==
  IF IsFile(fs, src)
  THEN [ok |-> TRUE,
        fs |-> [fs EXCEPT !.files =
                  With(@, Append(cwd, FileFlac),
                       Content("image", fs.files[src].data))]]
  ELSE [ok |-> FALSE, fs |-> fs]

\* The name without its last extension.
RECURSIVE Stem(_)
Stem(n) ==
  IF n = << >> THEN << >>
  ELSE IF n[Len(n)] = "." THEN SubSeq(n, 1, Len(n) - 1)
  ELSE IF \E i \in 1..Len(n) : n[i] = "." THEN Stem(SubSeq(n, 1, Len(n) - 1))
  ELSE n

\* shntool conv -o flac <src>: <stem of src>.flac in the working directory
Shntool(fs, cwd, src) ==
  IF IsFile(fs, src)
  THEN [ok |-> TRUE,
        fs |-> [fs EXCEPT !.files =
                  With(@, Append(cwd, Stem(Base(src)) \o DotFlac),
                       Content("image", fs.files[src].data))]]
  ELSE [ok |-> FALSE, fs |-> fs]

\* '%n - %t' of shnsplit -t, plus the output extension.
Digit == <<"0", "1", "2", "3", "4", "5", "6", "7", "8", "9">>
TrackName(i, title) ==
  <<Digit[(i \div 10) + 1], Digit[(i % 10) + 1], " ", "-", " ">>
    \o title \o DotFlac

\* shnsplit -f <cue> -t '%n - %t' -o flac <image>: one file per track of the
\* cue sheet and, when the sheet has a pregap, 00 - pregap.flac.
Shnsplit(fs, cwd, cue, image, titles, pg) ==
  IF IsFile(fs, cue) /\ image # None /\ IsFile(fs, image)
  THEN LET out == {Append(cwd, TrackName(i, titles[i])) : i \in 1..Len(titles)}
           pre == IF pg THEN {Append(cwd, PregapFlac)} ELSE {}
           new == [q \in out \cup pre |->
                     IF q \in pre THEN Content("pregap", <<0>>)
                     ELSE Content("track",
                            <<CHOOSE i \in 1..Len(titles) :
                                q = Append(cwd, TrackName(i, titles[i]))>>)]
       IN [ok |-> TRUE,
           fs |-> [fs EXCEPT !.files =
                     [q \in DOMAIN @ \cup DOMAIN new |->
                        IF q \in DOMAIN new THEN new[q] ELSE @[q]]]]
  ELSE [ok |-> FALSE, fs |-> fs]

\* cuetag.sh <cue> <flac>...: tags every named file from the cue sheet.
Cuetag(fs, cue, flacs) ==
  IF IsFile(fs, cue)
  THEN [ok |-> TRUE,
        fs |-> [fs EXCEPT !.files =
                  [q \in DOMAIN @ |->
                     IF \E i \in 1..Len(flacs) : flacs[i] = q
                     THEN [@[q] EXCEPT !.tagged = TRUE] ELSE @[q]]]]
  ELSE [ok |-> FALSE, fs |-> fs]

(***************************************************************************)
(* The steps of AlbumSplitter, as functions of the filesystem.             *)
(***************************************************************************)
\* _prepare_cue: read the cue sheet, drop the BOM literal, write it back.
DoPrepareCue(fs, cue, enc) ==
  IF ~IsFile(fs, cue) THEN [ok |-> FALSE, fs |-> fs]
  ELSE LET r == PrepareText(fs.files[cue].data, enc)
       IN [ok |-> r.ok,
           fs |-> [fs EXCEPT !.files[cue].data = r.b]]

\* _remove_flac: os.remove(self._flac_file), then the pregap file if present.
DoRemoveFlac(fs, album, flac) ==
  LET r == OsRemove(fs, flac)
      pregap_file == Append(album, PregapFlac)
  IN IF ~r.ok THEN r
     ELSE IF Exists(r.fs, pregap_file) THEN OsRemove(r.fs, pregap_file)
     ELSE r

\* newname = flac.replace(':', '').replace('?', ''), on the whole path string
SanitizedStr(str) == Replace(Replace(str, <<":">>), <<"?">>)

\* The loop of _sanitize_filenames over the list globbed before it starts.
RECURSIVE SanitizeLoop(_, _)
SanitizeLoop(fs, flacs) ==
  IF flacs = << >> THEN [ok |-> TRUE, fs |-> fs]
  ELSE LET flac == PathStr(Head(flacs))
           newname == SanitizedStr(flac)
       IN IF newname # flac
          THEN LET r == OsRename(fs, Head(flacs), StrPath(newname))
               IN IF r.ok THEN SanitizeLoop(r.fs, Tail(flacs)) ELSE r
          ELSE SanitizeLoop(fs, Tail(flacs))

\* _sanitize_filenames
DoSanitize(fs, album) == SanitizeLoop(fs, All(fs, album, StarFlac))

\* for file in self._all(wildcard): os.remove(file)
RECURSIVE RemoveEach(_, _)
RemoveEach(fs, items) ==
  IF items = << >> THEN [ok |-> TRUE, fs |-> fs]
  ELSE LET r == OsRemove(fs, Head(items))
       IN IF r.ok THEN RemoveEach(r.fs, Tail(items)) ELSE r

RECURSIVE RemoveWildcards(_, _, _)
RemoveWildcards(fs, album, wildcards) ==
  IF wildcards = << >> THEN [ok |-> TRUE, fs |-> fs]
  ELSE LET r == RemoveEach(fs, All(fs, album, Head(wildcards)))
       IN IF r.ok THEN RemoveWildcards(r.fs, album, Tail(wildcards)) ELSE r

RECURSIVE RemoveFolders(_, _, _)
RemoveFolders(fs, album, folders) ==
  IF folders = << >> THEN fs
  ELSE RemoveFolders(RmTree(fs, Append(album, Head(folders))), album,
                     Tail(folders))

\* _remove_trash
DoRemoveTrash(fs, album) ==
  LET r == RemoveWildcards(fs, album, files_to_remove)
  IN IF r.ok THEN [ok |-> TRUE, fs |-> RemoveFolders(r.fs, album, folders_to_remove)]
     ELSE r

RECURSIVE Reverse(_)
Reverse(q) == IF q = << >> THEN << >> ELSE Append(Reverse(Tail(q)), Head(q))

\* Subfolders without its sort(), the listing coming back in another order.
SubfoldersUnsorted(fs, folder) ==
  Reverse(SortPaths({d \in fs.dirs : Parent(d) = folder}))

\* subfolders = [f.path for f in os.scandir(folder) if f.is_dir()]; sort()
Subfolders(fs, folder) == SortPaths({d \in fs.dirs : Parent(d) = folder})

(***************************************************************************)
(* The program's state.                                                    *)
(***************************************************************************)
VARIABLES
  fs,         \* the filesystem below the working directory
  encoding,   \* the locale's encoding (environment)
  cueTracks,  \* the track titles the cue sheets define, as the tools read them
  pregap,     \* whether the cue sheets have a pregap
  stack,      \* _process_folder's activations: [folder, subs (still to visit)]
  pc,         \* where the program stands
  album,      \* self.album of the current AlbumSplitter
  cue_file,   \* self._cue_file
  flac_file,  \* self._flac_file
  visited,    \* history: the folders an AlbumSplitter was run on, in order
  cmds,       \* history: the tools invoked, in order
  failed,     \* history: a tool exited non-zero in the current pipeline
  pre,        \* history: [fs, ncmds] when the current AlbumSplitter was built
  hist        \* history: the filesystem after each direct call of a method

vars == <<fs, encoding, cueTracks, pregap, stack, pc, album, cue_file,
          flac_file, visited, cmds, failed, pre, hist>>
env == <<encoding, cueTracks, pregap>>

\* self._get_cue_file() / self._get_flac_file(): resolve unless cached
GetCueFile == IF cue_file = None THEN First(fs, album, StarCue) ELSE cue_file
GetFlacFile == IF flac_file = None THEN First(fs, album, StarFlac) ELSE flac_file

\* Split.run: process the working directory.
Run ==
  /\ pc = "run"
  /\ stack' = <<[folder |-> << >>, subs |-> Subfolders(fs, << >>)]>>
  /\ pc' = "loop"
  /\ UNCHANGED <<fs, env, hist, album, cue_file, flac_file, visited, cmds, failed, pre>>

\* The loop of _process_folder takes the next subfolder and builds its
\* AlbumSplitter: __init__ resolves the cue sheet and the FLAC file.
Construct ==
  /\ pc = "loop"
  /\ stack # << >>
  /\ stack[Len(stack)].subs # << >>
  /\ LET top == stack[Len(stack)]
         sub == Head(top.subs)
     IN /\ stack' = [stack EXCEPT ![Len(stack)].subs = Tail(top.subs)]
        /\ album' = sub
        /\ cue_file' = First(fs, sub, StarCue)
        /\ flac_file' = First(fs, sub, StarFlac)
        /\ visited' = Append(visited, sub)
  /\ pre' = [fs |-> fs, ncmds |-> Len(cmds)]
  /\ failed' = FALSE
  /\ pc' = "split"
  /\ UNCHANGED <<fs, env, hist, cmds>>

\* split(): return at once when there is no cue sheet.
SplitEntry ==
  /\ pc = "split"
  /\ cue_file' = GetCueFile
  /\ pc' = IF cue_file' = None THEN "recurse" ELSE "prepare_cue"
  /\ UNCHANGED <<fs, env, hist, stack, album, flac_file, visited, cmds, failed, pre>>

PrepareCue ==
  /\ pc = "prepare_cue"
  /\ cue_file' = GetCueFile
  /\ LET r == DoPrepareCue(fs, cue_file', encoding)
     IN /\ fs' = r.fs
        /\ pc' = IF r.ok THEN "convert_to_flac" ELSE "fault"
  /\ UNCHANGED <<env, hist, stack, album, flac_file, visited, cmds, failed, pre>>

ConvertToFlac ==
  /\ pc = "convert_to_flac"
  /\ LET w1  == First(fs, album, StarWav)
         wav == IF w1 # None THEN w1 ELSE First(fs, album, StarWv)
         r1  == IF wav # None THEN Sox(fs, album, wav)
                ELSE [ok |-> TRUE, fs |-> fs]
         ape == First(r1.fs, album, StarApe)
         r2  == IF ape # None
                THEN Shntool(r1.fs, album, ape)
                ELSE [ok |-> TRUE, fs |-> r1.fs]
     IN /\ fs' = r2.fs
        /\ cmds' = cmds \o (IF wav # None THEN <<"sox">> ELSE << >>)
                        \o (IF ape # None THEN <<"shntool">> ELSE << >>)
        /\ failed' = (failed \/ ~r1.ok \/ ~r2.ok)
  /\ pc' = "split_flac"
  /\ UNCHANGED <<env, hist, stack, album, cue_file, flac_file, visited, pre>>

SplitFlac ==
  /\ pc = "split_flac"
  /\ cue_file' = GetCueFile
  /\ flac_file' = GetFlacFile
  /\ LET r == Shnsplit(fs, album, cue_file', flac_file', cueTracks, pregap)
     IN /\ fs' = r.fs
        /\ failed' = (failed \/ ~r.ok)
  /\ cmds' = Append(cmds, "shnsplit")
  /\ pc' = "remove_flac"
  /\ UNCHANGED <<env, hist, stack, album, visited, pre>>

\* RemoveFlac with the fault caught per album: the walk goes on.
RemoveFlacCaught ==
  /\ pc = "remove_flac"
  /\ LET r == DoRemoveFlac(fs, album, flac_file)
     IN /\ fs' = r.fs
        /\ pc' = IF r.ok THEN "set_tags" ELSE "recurse"
  /\ UNCHANGED <<env, hist, stack, album, cue_file, flac_file, visited, cmds, failed, pre>>

RemoveFlac ==
  /\ pc = "remove_flac"
  /\ LET r == DoRemoveFlac(fs, album, flac_file)
     IN /\ fs' = r.fs
        /\ pc' = IF r.ok THEN "set_tags" ELSE "fault"
  /\ UNCHANGED <<env, hist, stack, album, cue_file, flac_file, visited, cmds, failed, pre>>

SetTags ==
  /\ pc = "set_tags"
  /\ cue_file' = GetCueFile
  /\ LET r == Cuetag(fs, cue_file', All(fs, album, StarFlac))
     IN /\ fs' = r.fs
        /\ failed' = (failed \/ ~r.ok)
  /\ cmds' = Append(cmds, "cuetag.sh")
  /\ pc' = "sanitize_filenames"
  /\ UNCHANGED <<env, hist, stack, album, flac_file, visited, pre>>

SanitizeFilenames ==
  /\ pc = "sanitize_filenames"
  /\ LET r == DoSanitize(fs, album)
     IN /\ fs' = r.fs
        /\ pc' = IF r.ok THEN "remove_trash" ELSE "fault"
  /\ UNCHANGED <<env, hist, stack, album, cue_file, flac_file, visited, cmds, failed, pre>>

RemoveTrash ==
  /\ pc = "remove_trash"
  /\ LET r == DoRemoveTrash(fs, album)
     IN /\ fs' = r.fs
        /\ pc' = IF r.ok THEN "recurse" ELSE "fault"
  /\ UNCHANGED <<env, hist, stack, album, cue_file, flac_file, visited, cmds, failed, pre>>

\* split() has returned: self._process_folder(folder=subfolder)
Recurse ==
  /\ pc = "recurse"
  /\ stack' = Append(stack, [folder |-> album, subs |-> Subfolders(fs, album)])
  /\ pc' = "loop"
  /\ UNCHANGED <<fs, env, hist, album, cue_file, flac_file, visited, cmds, failed, pre>>

\* The loop of _process_folder is exhausted: return to the caller.
Return ==
  /\ pc = "loop"
  /\ stack # << >>
  /\ stack[Len(stack)].subs = << >>
  /\ stack' = SubSeq(stack, 1, Len(stack) - 1)
  /\ pc' = IF Len(stack) = 1 THEN "done" ELSE "loop"
  /\ UNCHANGED <<fs, env, hist, album, cue_file, flac_file, visited, cmds, failed, pre>>

Next ==
  \/ Run \/ Construct \/ SplitEntry \/ PrepareCue \/ ConvertToFlac
  \/ SplitFlac \/ RemoveFlac \/ SetTags \/ SanitizeFilenames \/ RemoveTrash
  \/ Recurse \/ Return

(***************************************************************************)
(* Bounds and the inputs drawn within them.                                *)
(***************************************************************************)
MaxTracks == 2
MaxCueLen == 6
MaxCalls == 2

NameA == <<"a">>
NameB == <<"b">>
NameC == <<"c">>
NameD == <<"d">>
NameScans == <<"S", "c", "a", "n", "s">>
NameBrA == <<"[", "a", "]">>
NameBrB == <<"[", "b", "]">>
NameAColon == <<"a", ":">>
XCue == <<"x", ".", "c", "u", "e">>
XWav == <<"x", ".", "w", "a", "v">>
XWv == <<"x", ".", "w", "v">>
XApe == <<"x", ".", "a", "p", "e">>
XLog == <<"x", ".", "l", "o", "g">>
IFlac == <<"i">> \o DotFlac

\* A cue sheet as a Windows ripper writes it: BOM, text, CRLF.
TypicalCue == <<239, 187, 191, 65, 13, 10>>

\* The content a file of this name starts with.
InitialContent(name) ==
  IF name = XCue THEN Content("cue", TypicalCue)
  ELSE IF name = XWav THEN Content("wav", <<1>>)
  ELSE IF name = XWv THEN Content("wv", <<2>>)
  ELSE IF name = XApe THEN Content("ape", <<3>>)
  ELSE IF name = IFlac THEN Content("image", <<4>>)
  ELSE Content("log", <<5>>)

\* The files of folder d holding the names in N.
FilesIn(d, N) == [q \in {Append(d, n) : n \in N} |-> InitialContent(Base(q))]

\* The union of file maps over disjoint sets of paths.
Merge(f, g) ==
  [q \in DOMAIN f \cup DOMAIN g |-> IF q \in DOMAIN f THEN f[q] ELSE g[q]]

\* Track i's title: odd tracks "t", even tracks "u:".
TitleOf(i) == IF i % 2 = 1 THEN <<"t">> ELSE <<"u", ":">>

\* The environment with n tracks on the cue sheets: an odd n comes with a
\* UTF-8 locale and no pregap, an even n with latin-1 and a pregap.
EnvOf(n) ==
  /\ cueTracks = [i \in 1..n |-> TitleOf(i)]
  /\ encoding = IF n % 2 = 1 THEN "utf-8" ELSE "latin-1"
  /\ pregap = (n % 2 = 0)

\* The state before Split().run(), on filesystem f.
Start(f) ==
  /\ fs = f
  /\ stack = << >>
  /\ pc = "run"
  /\ album = << >>
  /\ cue_file = None
  /\ flac_file = None
  /\ visited = << >>
  /\ cmds = << >>
  /\ failed = FALSE
  /\ pre = [fs |-> f, ncmds |-> 0]
  /\ hist = << >>

(***************************************************************************)
(* Spec: the tree walk.  Folders b, b/c, b/Scans, d and [b]; every folder  *)
(* but Scans is empty, an album (cue sheet and WAV) or a cue sheet alone.  *)
(***************************************************************************)
WalkAlbumDirs == {<<NameB>>, <<NameB, NameC>>, <<NameD>>, <<NameBrB>>}
WalkDirs == WalkAlbumDirs \cup {<<NameB, NameScans>>}
WalkTemplates == {{}, {XCue, XWav}, {XCue}}

RECURSIVE MergeAll(_, _)
MergeAll(D, t) ==
  IF D = {} THEN << >>
  ELSE LET d == CHOOSE x \in D : TRUE
       IN Merge(FilesIn(d, t[d]), MergeAll(D \ {d}, t))

WalkInit ==
  /\ \E n \in 1..MaxTracks : EnvOf(n)
  /\ \E D \in SUBSET WalkDirs :
       /\ \A d \in D : Parent(d) = << >> \/ Parent(d) \in D
       /\ \E t \in [D \cap WalkAlbumDirs -> WalkTemplates] :
            Start([files |-> Merge(MergeAll(D \cap WalkAlbumDirs, t),
                                   FilesIn(<<NameB, NameScans>>,
                                           IF <<NameB, NameScans>> \in D
                                           THEN {XLog} ELSE {})),
                   dirs |-> D])

Spec == WalkInit /\ [][Next]_vars

(***************************************************************************)
(* SpecAlbum: one album folder X, named b, [a] or a: and holding any       *)
(* subset of the recognised files, with or without a Scans folder, beside  *)
(* a sibling album a (cue sheet and WAV).                                  *)
(***************************************************************************)
AlbumNames == {NameB, NameBrA, NameAColon}
AlbumFiles == {XCue, XWav, XWv, XApe, IFlac, XLog}

AlbumInit ==
  /\ \E n \in 1..MaxTracks : EnvOf(n)
  /\ \E X \in AlbumNames, N \in SUBSET AlbumFiles, scans \in BOOLEAN :
       Start([files |-> Merge(Merge(FilesIn(<<NameA>>, {XCue, XWav}),
                                    FilesIn(<<X>>, N)),
                              FilesIn(<<X, NameScans>>,
                                      IF scans THEN {XLog} ELSE {})),
              dirs |-> {<<NameA>>, <<X>>}
                       \cup (IF scans THEN {<<X, NameScans>>} ELSE {})])

SpecAlbum == AlbumInit /\ [][Next]_vars

(***************************************************************************)
(* Direct calls of one method on an AlbumSplitter built for folder a, up   *)
(* to MaxCalls times; hist records the filesystem after each call.         *)
(***************************************************************************)
\* The state after AlbumSplitter(album=d) on filesystem f.
Built(f, d) ==
  /\ fs = f
  /\ stack = << >>
  /\ pc = "call"
  /\ album = d
  /\ cue_file = First(f, d, StarCue)
  /\ flac_file = First(f, d, StarFlac)
  /\ visited = << >>
  /\ cmds = << >>
  /\ failed = FALSE
  /\ pre = [fs |-> f, ncmds |-> 0]
  /\ hist = << >>

\* self._prepare_cue()
CallPrepareCue ==
  /\ pc = "call"
  /\ Len(hist) < MaxCalls
  /\ cue_file' = GetCueFile
  /\ LET r == DoPrepareCue(fs, cue_file', encoding)
     IN /\ fs' = r.fs
        /\ hist' = Append(hist, r.fs)
        /\ pc' = IF r.ok THEN "call" ELSE "fault"
  /\ UNCHANGED <<env, stack, album, flac_file, visited, cmds, failed, pre>>

\* self._sanitize_filenames()
CallSanitize ==
  /\ pc = "call"
  /\ Len(hist) < MaxCalls
  /\ LET r == DoSanitize(fs, album)
     IN /\ fs' = r.fs
        /\ hist' = Append(hist, r.fs)
        /\ pc' = IF r.ok THEN "call" ELSE "fault"
  /\ UNCHANGED <<env, stack, album, cue_file, flac_file, visited, cmds, failed, pre>>

SeqsUpTo(S, n) == UNION {[1..k -> S] : k \in 0..n}

\* The cue sheets tried: every byte string up to MaxCueLen over the BOM's
\* bytes and "A", every one up to 3 over those and CR, LF, and the UTF-8
\* encoding of every text up to MaxCueLen over the BOM literal's characters.
CueInputs ==
  SeqsUpTo({239, 187, 191, 65}, MaxCueLen)
    \cup SeqsUpTo({239, 187, 191, 65, 13, 10}, 3)
    \cup {EncodeUtf8(t).b : t \in SeqsUpTo({239, 187, 191}, MaxCueLen)}

CueInit ==
  /\ encoding \in Encodings
  /\ cueTracks = <<TitleOf(1)>>
  /\ pregap = FALSE
  /\ \E b \in CueInputs :
       Built([files |-> [q \in {<<NameA, XCue>>} |-> Content("cue", b)],
              dirs |-> {<<NameA>>}], <<NameA>>)

SpecCue == CueInit /\ [][CallPrepareCue]_vars

\* The FLAC names tried: ab, a:b, a?b, c, :c, c?: and t.
SanNames ==
  {<<"a", "b">>, <<"a", ":", "b">>, <<"a", "?", "b">>, <<"c">>, <<":", "c">>,
   <<"c", "?", ":">>, <<"t">>}

\* Every file holds a track of its own.
SanFiles(d, N) ==
  [q \in {Append(d, n \o DotFlac) : n \in N} |->
     Content("track", Stem(Base(q)))]

SanInit ==
  /\ encoding = "utf-8"
  /\ cueTracks = <<TitleOf(1)>>
  /\ pregap = FALSE
  /\ \E N \in SUBSET SanNames :
       Built([files |-> SanFiles(<<NameA>>, N), dirs |-> {<<NameA>>}], <<NameA>>)

SpecSan == SanInit /\ [][CallSanitize]_vars

(***************************************************************************)
(* The claims.                                                             *)
(***************************************************************************)
StartsWith(q, x) == Len(q) >= Len(x) /\ SubSeq(q, 1, Len(x)) = x
EndsWith(q, x) == Len(q) >= Len(x) /\ SubSeq(q, Len(q) - Len(x) + 1, Len(q)) = x
Has(q, c) == \E i \in 1..Len(q) : q[i] = c
DotCue == <<".", "c", "u", "e">>
Trash ==
  {DotCue, <<".", "w", "a", "v">>, <<".", "w", "v">>, <<".", "a", "p", "e">>,
   <<".", "l", "o", "g">>}

\* The files with extension ext located directly in folder d.
DirectFiles(f, d, ext) ==
  {p \in DOMAIN f.files : Parent(p) = d /\ EndsWith(Base(p), ext)}

\* The alphabetically first of them, or the missing value.
FirstDirect(f, d, ext) ==
  LET P == DirectFiles(f, d, ext)
  IN IF P = {} THEN None
     ELSE CHOOSE p \in P : \A q \in P \ {p} : StrLess(Base(p), Base(q))

NoArtwork(f, d) ==
  \A i \in 1..Len(folders_to_remove) : Append(d, folders_to_remove[i]) \notin f.dirs

\* An AlbumSplitter has been built and its folder is album.
Processing == album # << >> /\ pc \notin {"run", "call"}
\* split() has returned for the current album.
Returned == pc = "recurse"

\* C1: while an album folder that held no cue sheet when its AlbumSplitter
\* was built is being processed, the filesystem is the one it was built on
\* and no external tool has been invoked.
C1_NoCueIsNoOp ==
  (Processing /\ DirectFiles(pre.fs, album, DotCue) = {})
    => (fs = pre.fs /\ Len(cmds) = pre.ncmds)

\* C2: once split() has returned on a folder that held exactly one cue
\* sheet, exactly one WAV and no FLAC, every tool having exited zero, the
\* folder's FLAC files are exactly the N tracks of the cue sheet, named by
\* number and (sanitized) title and tagged, and no .wav, .ape, .wv, .cue or
\* .log file and no artwork folder is left in it.
C2_WellFormedAlbumResult ==
  (/\ Processing /\ Returned /\ ~failed
   /\ Cardinality(DirectFiles(pre.fs, album, DotCue)) = 1
   /\ Cardinality(DirectFiles(pre.fs, album, <<".", "w", "a", "v">>)) = 1
   /\ DirectFiles(pre.fs, album, DotFlac) = {})
    => /\ DirectFiles(fs, album, DotFlac)
            = {Append(album, SanitizedStr(TrackName(i, cueTracks[i]))) :
                 i \in 1..Len(cueTracks)}
       /\ \A p \in DirectFiles(fs, album, DotFlac) :
            fs.files[p].kind = "track" /\ fs.files[p].tagged
       /\ \A ext \in Trash : DirectFiles(fs, album, ext) = {}
       /\ NoArtwork(fs, album)

\* The folders of D in pre-order, the children of a folder by name.
RECURSIVE ByName(_)
ByName(S) ==
  IF S = {} THEN << >>
  ELSE LET m == CHOOSE x \in S : \A y \in S \ {x} : StrLess(Base(x), Base(y))
       IN <<m>> \o ByName(S \ {m})

RECURSIVE PreOrderFrom(_, _)
PreOrderFrom(D, kids) ==
  IF kids = << >> THEN << >>
  ELSE <<Head(kids)>>
         \o PreOrderFrom(D, ByName({d \in D : Parent(d) = Head(kids)}))
         \o PreOrderFrom(D, Tail(kids))

PreOrder(D) == PreOrderFrom(D, ByName({d \in D : Parent(d) = << >>}))

\* C3: the folders an AlbumSplitter has been run on are, in order, an
\* initial part of the pre-order listing of the folders below the root
\* (siblings by name), the whole of it when the walk is done; the root is
\* never among them, and a pipeline step only ever runs on the folder
\* visited last.
C3_PreOrderWalk ==
  /\ IsPrefix(visited, PreOrder(fs.dirs))
  /\ (pc = "done" => visited = PreOrder(fs.dirs))
  /\ \A i \in 1..Len(visited) : visited[i] # << >>
  /\ (pc \notin {"run", "loop", "done"} => album = visited[Len(visited)])

\* The walk of the tree b, b/c, d has run to its end, in that order.
C3_Witness ==
  /\ pc = "done"
  /\ visited = << <<NameB>>, <<NameB, NameC>>, <<NameD>> >>

\* C4: after _sanitize_filenames has returned, no file of the folder has a
\* ':' or '?' in its name, and every FLAC file whose name had neither is
\* still there under the same name with the same content.
C4_SanitizeKeepsCleanFiles ==
  (pc = "call" /\ Len(hist) >= 1)
    => /\ \A p \in DOMAIN hist[1].files :
            Parent(p) = album => ~Has(Base(p), ":") /\ ~Has(Base(p), "?")
       /\ \A p \in DirectFiles(pre.fs, album, DotFlac) :
            (~Has(Base(p), ":") /\ ~Has(Base(p), "?"))
              => /\ p \in DOMAIN hist[1].files
                 /\ hist[1].files[p] = pre.fs.files[p]

CueBytes(f) == f.files[<<NameA, XCue>>].data

\* C5: after _prepare_cue has returned, a cue sheet that began with the BOM
\* holds what it held less exactly that leading BOM, and any other cue
\* sheet holds what it held.
C5_StripsOnlyLeadingBom ==
  (pc = "call" /\ Len(hist) >= 1)
    => LET before == CueBytes(pre.fs)
           after  == CueBytes(hist[1])
       IN IF StartsWith(before, BOM)
          THEN after = SubSeq(before, Len(BOM) + 1, Len(before))
          ELSE after = before

\* C6: a second _prepare_cue leaves the cue sheet as the first one left it.
C6_PrepareCueIdempotent ==
  (pc = "call" /\ Len(hist) >= 2) => CueBytes(hist[2]) = CueBytes(hist[1])

\* C7: once split() has returned on a folder that held a cue sheet, every
\* tool having exited zero, every file left in the folder is a per-track
\* FLAC file (no merged image, source audio, cue sheet or log) and no
\* artwork folder is left.
C7_OnlyTracksRemain ==
  (Processing /\ Returned /\ ~failed /\ DirectFiles(pre.fs, album, DotCue) # {})
    => /\ \A p \in DOMAIN fs.files :
            Parent(p) = album => fs.files[p].kind = "track"
       /\ NoArtwork(fs, album)

\* C8: a new AlbumSplitter holds the alphabetically first .cue file and the
\* alphabetically first .flac file located directly in its folder, and the
\* missing value exactly when the folder has none.
C8_ResolvesFirstInFolder ==
  pc = "split"
    => /\ cue_file = FirstDirect(fs, album, DotCue)
       /\ flac_file = FirstDirect(fs, album, DotFlac)

\* The step about to run raises.
Raises ==
  \/ pc = "prepare_cue" /\ ~DoPrepareCue(fs, GetCueFile, encoding).ok
  \/ pc = "remove_flac" /\ ~DoRemoveFlac(fs, album, flac_file).ok
  \/ pc = "sanitize_filenames" /\ ~DoSanitize(fs, album).ok
  \/ pc = "remove_trash" /\ ~DoRemoveTrash(fs, album).ok

\* C9: a step that raises ends the program: the fault is the next state,
\* and from it no step is taken, so no file changes, no tool runs and no
\* further folder is visited.
C9_FaultEndsWalk ==
  [][/\ Raises => pc' = "fault"
     /\ pc = "fault" => UNCHANGED <<fs, visited, cmds, stack, pc>>]_vars

\* _remove_flac has raised for want of a FLAC file (shnsplit was the last
\* tool run) while folders were still waiting in the walk.
C9_Witness ==
  /\ pc = "fault"
  /\ flac_file = None
  /\ cmds # << >> /\ cmds[Len(cmds)] = "shnsplit"
  /\ \E i \in 1..Len(stack) : stack[i].subs # << >>

\* C10: while album folder X is being processed, every file outside X is
\* there with the content it had when X's AlbumSplitter was built, no file
\* has appeared outside X, and the folders outside X are the same.
C10_OnlyInsideAlbum ==
  Processing
    => /\ \A p \in DOMAIN fs.files \cup DOMAIN pre.fs.files :
            ~Inside(album, p)
              => /\ p \in DOMAIN fs.files /\ p \in DOMAIN pre.fs.files
                 /\ fs.files[p] = pre.fs.files[p]
       /\ {d \in fs.dirs : ~IsPrefix(album, d)}
            = {d \in pre.fs.dirs : ~IsPrefix(album, d)}

=============================================================================
